---- MODULE Spec2Model ----
(***************************************************************************)
(* SocketService (app/static/js/app.js): one scan identifier bound to a     *)
(* Socket.IO channel, inbound scan_* messages filtered by scan_id and       *)
(* fanned out to per-kind listener lists.                                   *)
(*                                                                          *)
(* The model is one SocketService instance; instances share no state (each  *)
(* has its own fields and each io() call returns its own channel).          *)
(* JavaScript runs every handler to completion, so each action below is one *)
(* whole call (a public method, or one event handler run by the channel).   *)
(* The record `last` is what an observer saw the most recent call do: the   *)
(* ordered log of listener entries/exits, sends and close requests, and     *)
(* whether an exception left the call.                                      *)
(***************************************************************************)
EXTENDS Naturals, Sequences, FiniteSets

\* ---------------------------------------------------------------- bounds
\* page numbers of extraction items: 0..MaxPage
MaxPage == 2
\* listener registrations, over the five lists
MaxCallbacks == 2

\* ---------------------------------------------------------------- values
UNDEF == "undefined"
ScanIds == {"A", "B"}
\* what `new SocketService(x)` may be given: a scan identifier, or nothing
ScanIdValues == ScanIds \cup {UNDEF}
Bodies == {"m1"}
Kinds == {"progress", "complete", "error", "connect", "disconnect"}
\* what a listener does when called: return, throw, or call disconnect()
\* on the client and then return
Behaviours == {"return", "throw", "disconnect"}
\* this.socket is null, or refers to a channel; the model keeps, in place of
\* the reference, the state of the channel referred to: socket.connected is
\* false (being established, or lost and being re-established) or true.
\* A channel that connect() replaced without closing it stays alive with its
\* handlers attached, and nothing can close it any more. There may be any
\* number of them and they are interchangeable: `orphans` is the set of the
\* states in which there is at least one.
NULL == "null"

\* a payload object; scan_id = UNDEF is an object without a scan_id property
Obj(id, b) == [tag |-> "object", scan_id |-> id, body |-> b]
\* `callback(data)` with data = null (the default of _triggerCallbacks)
NullData == [tag |-> "null", scan_id |-> UNDEF, body |-> UNDEF]
\* the scan_id of an inbound payload: a scan identifier, or none
PayloadIds == {"A", UNDEF}
\* what the channel delivers: the server always sends an object
Inbound == {Obj(id, b) : id \in PayloadIds, b \in Bodies}
\* the one message the page sends through emit()
EmitData == Obj(UNDEF, "m1")

\* closed: disconnect() has been called while this.socket referred to a
\* channel; replaced: connect() has been called while this.socket referred to a
\* channel (both are history, not fields of the object)
\* display: the extraction item a display component is given and what the
\* component made of it (the components hold no reference to the client)
VARIABLES scanId, socket, callbacks, orphans, last, closed, replaced, display
vars == <<scanId, socket, callbacks, orphans, last, closed, replaced, display>>

\* an entry of the observable log of one call
Ev(e, cb, k, d) == [ev |-> e, cb |-> cb, kind |-> k, arg |-> d]
\* an entry that no listener makes (listeners are numbered from 1)
Note(e, k, d) == Ev(e, 0, k, d)
\* the mutable state a call threads through its steps
Start == [socket |-> socket, orphans |-> orphans, log |-> <<>>, thrown |-> FALSE]
Say(st, e) == [st EXCEPT !.log = Append(@, e)]
\* the observable record of one call; `repeat` tells that the call before it
\* was the delivery of the very same message
Op(o, s, k, d, st) ==
  [op |-> o, sock |-> s, kind |-> k, data |-> d, log |-> st.log, raised |-> st.thrown,
   repeat |-> o = "recv" /\ last.op = "recv" /\ last.kind = k /\ last.data = d]

Out(outs, i) == IF i \in DOMAIN outs THEN outs[i] ELSE "return"
\* the outcomes a round over a list of n listeners can have. disconnect()
\* called when this.socket is null does nothing, so a listener that calls it
\* then counts as one that returns: at most one listener of a round calls it,
\* and only when there is a reference to drop
OutsFor(n, canClose) ==
  {o \in [1..n -> Behaviours] :
     \A i, j \in 1..n : o[i] = "disconnect" /\ o[j] = "disconnect" => canClose /\ i = j}
\* JavaScript === on two values that are strings or undefined
StrictEq(a, b) == a = b
\* socket.connected of the Socket.IO client
Connected(s) == s = "connected"

RECURSIVE TriggerCallbacksFrom(_, _, _, _, _, _)

\* this.socket.on("disconnect", ...): app.js:106-109
OnDisconnect(outs, st) ==
  TriggerCallbacksFrom("disconnect", NullData, 1, outs, <<>>, st)

\* socket.disconnect() of the Socket.IO client, called at app.js:141: the channel
\* is closed for good; when it was connected its "disconnect" event fires
\* synchronously, inside the call
SocketClosed(st) == Say([st EXCEPT !.socket = "closed"], Note("close", "-", NullData))
SocketDisconnect(nested, st) ==
  IF Connected(st.socket) THEN OnDisconnect(nested, SocketClosed(st)) ELSE SocketClosed(st)

\* faulty variant: disconnect() that drops the reference without closing the channel
DisconnectCallLeak(nested, st) ==
  IF st.socket # NULL
    THEN [st EXCEPT !.socket = NULL, !.orphans = @ \cup {st.socket}]
    ELSE st

\* faulty variant: disconnect() that closes the channel and keeps the reference
DisconnectCallKeepsReference(nested, st) ==
  IF st.socket # NULL THEN SocketDisconnect(nested, st) ELSE st

\* disconnect(): app.js:139-144
DisconnectCall(nested, st) ==
  IF st.socket # NULL
    THEN [SocketDisconnect(nested, st) EXCEPT !.socket = NULL]
    ELSE st

\* the body of one listener, as far as the client can tell
ListenerBody(out, nested, st) ==
  CASE out = "throw" -> [st EXCEPT !.thrown = TRUE]
    [] out = "disconnect" -> DisconnectCall(nested, st)
    [] OTHER -> st

\* try { callback(data) } catch (error) { console.error(...) }: app.js:169-173
\* faulty variant: callback(data) without the try/catch around it
Uncaught(cb, event, data, st) ==
  IF st.thrown THEN st ELSE Say(st, Ev("exit", cb, event, data))

\* the catch clause and what follows the call: app.js:171-173
Caught(cb, event, data, st) ==
  IF st.thrown
    THEN Say([st EXCEPT !.thrown = FALSE], Ev("caught", cb, event, data))
    ELSE Say(st, Ev("exit", cb, event, data))
TryCallback(cb, event, data, out, nested, st) ==
  Caught(cb, event, data, ListenerBody(out, nested, Say(st, Ev("enter", cb, event, data))))

\* _triggerCallbacks(event, data): app.js:167-175, from the i-th listener on.
\* An exception that leaves a callback ends the forEach.
TriggerCallbacksFrom(event, data, i, outs, nested, st) ==
  IF i > Len(callbacks[event]) \/ st.thrown
    THEN st
    ELSE TriggerCallbacksFrom(event, data, i + 1, outs, nested,
           TryCallback(callbacks[event][i], event, data, Out(outs, i), nested, st))

\* faulty variant: a loop that starts at the second listener
TriggerCallbacksOffByOne(event, data, outs, nested, st) ==
  TriggerCallbacksFrom(event, data, 2, outs, nested, st)

TriggerCallbacks(event, data, outs, nested, st) ==
  TriggerCallbacksFrom(event, data, 1, outs, nested, st)

\* faulty variant: connect listeners invoked before the handshake is sent
OnConnectListenersFirst(outs, nested, st) ==
  IF st.socket = NULL
    THEN [st EXCEPT !.thrown = TRUE]
    ELSE Say(TriggerCallbacks("connect", NullData, outs, nested, st),
             Note("send", "client_ready", Obj(scanId, UNDEF)))

\* this.socket.on("connect", ...): app.js:100-104. this.socket is read when the
\* event fires; null.emit(...) is a TypeError that leaves the handler
OnConnect(outs, nested, st) ==
  IF st.socket = NULL
    THEN [st EXCEPT !.thrown = TRUE]
    ELSE TriggerCallbacks("connect", NullData, outs, nested,
           Say(st, Note("send", "client_ready", Obj(scanId, UNDEF))))

\* faulty variant: a progress message equal to the one just handled is skipped
OnScanProgressCoalesced(data, outs, nested, st) ==
  IF last.op = "recv" /\ last.kind = "scan_progress" /\ last.data = data
    THEN st
    ELSE IF StrictEq(data.scan_id, scanId)
      THEN TriggerCallbacks("progress", data, outs, nested, st)
      ELSE st

\* this.socket.on("scan_progress", ...): app.js:111-117
OnScanProgress(data, outs, nested, st) ==
  IF StrictEq(data.scan_id, scanId)
    THEN TriggerCallbacks("progress", data, outs, nested, st)
    ELSE st

\* faulty variant: scan_complete dispatched without the scan_id test
OnScanCompleteUnfiltered(data, outs, nested, st) ==
  TriggerCallbacks("complete", data, outs, nested, st)

\* this.socket.on("scan_complete", ...): app.js:119-125
OnScanComplete(data, outs, nested, st) ==
  IF StrictEq(data.scan_id, scanId)
    THEN TriggerCallbacks("complete", data, outs, nested, st)
    ELSE st

\* faulty variant: scan_error routed to the progress listeners
OnScanErrorMisrouted(data, outs, nested, st) ==
  IF StrictEq(data.scan_id, scanId)
    THEN TriggerCallbacks("progress", data, outs, nested, st)
    ELSE st

\* this.socket.on("scan_error", ...): app.js:127-132
OnScanError(data, outs, nested, st) ==
  IF StrictEq(data.scan_id, scanId)
    THEN TriggerCallbacks("error", data, outs, nested, st)
    ELSE st

\* the handlers connect() attaches to a channel, by message name
MessageNames == {"scan_progress", "scan_complete", "scan_error"}
Handle(name, data, outs, nested, st) ==
  CASE name = "scan_progress" -> OnScanProgress(data, outs, nested, st)
    [] name = "scan_complete" -> OnScanComplete(data, outs, nested, st)
    [] name = "scan_error" -> OnScanError(data, outs, nested, st)

\* faulty variant: emit() that tests the reference but not socket.connected
EmitCallUnchecked(name, data, st) ==
  IF st.socket # NULL
    THEN Say(st, Note("send", name, data))
    ELSE Say(st, Note("warn", name, NullData))

\* emit(eventName, data): app.js:177-183
EmitCall(name, data, st) ==
  IF st.socket # NULL /\ Connected(st.socket)
    THEN Say(st, Note("send", name, data))
    ELSE Say(st, Note("warn", name, NullData))

\* ------------------------------------------------- extraction items
\* JavaScript values of the fields of an item: a page number, or undefined for
\* a field the item does not have; the two sentinels are strings
Num(n) == [type |-> "number", v |-> n]
Undefined == [type |-> "undefined", v |-> 0]
Unknown == [type |-> "string:unknown", v |-> 0]
NotApplicable == [type |-> "string:N/A", v |-> 0]
PageValues == {Undefined} \cup {Num(n) : n \in 0..MaxPage}
\* item.attributes / item.source_location: absent, or an object with a page
NoObject == [type |-> "undefined", page |-> Undefined]
Object(pg) == [type |-> "object", page |-> pg]
Objects == {NoObject} \cup {Object(pg) : pg \in PageValues}
Item(pg, attrs, loc) == [page |-> pg, attributes |-> attrs, source_location |-> loc]
Items == {Item(pg, attrs, loc) : pg \in PageValues, attrs \in Objects, loc \in Objects}
\* what `if (x)` makes of a value: undefined and the number 0 are falsy,
\* other numbers, non-empty strings and objects are truthy
Truthy(x) == x.type # "undefined" /\ ~(x.type = "number" /\ x.v = 0)

\* ResultsDisplay._extractPageNumber(item): results-display.js:91-100
ResultsExtractPageNumber(item) ==
  IF Truthy(item.page) THEN item.page
  ELSE IF Truthy(item.attributes) /\ Truthy(item.attributes.page) THEN item.attributes.page
  ELSE IF Truthy(item.source_location) /\ Truthy(item.source_location.page)
    THEN item.source_location.page
  ELSE Unknown

\* AIDisplay._extractPageNumber(item): ai-display.js:210-219
AIExtractPageNumber(item) ==
  IF Truthy(item.page) THEN item.page
  ELSE IF Truthy(item.attributes) /\ Truthy(item.attributes.page) THEN item.attributes.page
  ELSE IF Truthy(item.source_location) /\ Truthy(item.source_location.page)
    THEN item.source_location.page
  ELSE NotApplicable

\* ---------------------------------------------------------------- actions
Registered == Len(callbacks["progress"]) + Len(callbacks["complete"])
              + Len(callbacks["error"]) + Len(callbacks["connect"])
              + Len(callbacks["disconnect"])
\* the function passed to a registration is named after the place it takes:
\* the n-th function registered for a kind is n
Passable(k) == {Len(callbacks[k]) + 1}
\* ... or a function the list already holds, passed again
PassableAgain(k) == Passable(k) \cup {callbacks[k][i] : i \in DOMAIN callbacks[k]}
\* the listeners a call enters, at the top level and in all
Enters(log) == SelectSeq(log, LAMBDA e : e.ev = "enter")
Entered(st) == Len(Enters(st.log))
\* which channel fires: the one this.socket refers to, or an orphan
Sources == {"this", "orphan"}
\* the channel `src` is in state `from`
Has(src, from) == IF src = "this" THEN socket = from ELSE from \in orphans
\* the channel `src` goes from state `from` to state `to` before its handler
\* runs (an orphan that moves may or may not be the last one in state `from`)
Moved(src, from, to) ==
  IF src = "this" THEN {[Start EXCEPT !.socket = to]}
  ELSE {[Start EXCEPT !.orphans = (@ \ {from}) \cup {to}],
        [Start EXCEPT !.orphans = @ \cup {to}]}
\* the call's effects on the client, and what was seen of it
Commit(o, s, k, d, st) ==
  /\ socket' = st.socket
  /\ orphans' = st.orphans
  /\ closed' = (closed \/ (socket # NULL /\ st.socket = NULL))
  /\ last' = Op(o, s, k, d, st)
  /\ UNCHANGED <<scanId, callbacks, replaced, display>>

\* the outcomes of the listeners a handler enters from st0; quiet is the state
\* the handler ends in when every listener returns
Reach1(quiet, st0) == OutsFor(Entered(quiet), st0.socket # NULL)
\* the outcomes of the disconnect listeners entered inside those: the first
\* listener that calls disconnect() runs them when this.socket is connected
Reach2(st0, outs) ==
  IF Connected(st0.socket) /\ \E i \in DOMAIN outs : outs[i] = "disconnect"
    THEN OutsFor(Len(callbacks["disconnect"]), TRUE)
    ELSE {<<>>}

\* no item has been given to a display component
NoDisplay == [op |-> "none", item |-> Item(Undefined, NoObject, NoObject),
              pageNumber |-> Undefined, grouped |-> FALSE]

\* what was seen of new SocketService(id)
Constructed(id) ==
  [op |-> "new", sock |-> "-", kind |-> "-", data |-> Obj(id, UNDEF),
   log |-> <<>>, raised |-> FALSE, repeat |-> FALSE]

\* faulty variant: a constructor that opens the channel itself
InitConnects ==
  \E id \in ScanIdValues :
    /\ scanId = id
    /\ socket = "disconnected"
    /\ callbacks = [k \in Kinds |-> <<>>]
    /\ orphans = {}
    /\ closed = FALSE
    /\ replaced = FALSE
    /\ last = Constructed(id)
    /\ display = NoDisplay

\* constructor(scanId): app.js:81-93
Init ==
  \E id \in ScanIdValues :
    /\ scanId = id
    /\ socket = NULL
    /\ callbacks = [k \in Kinds |-> <<>>]
    /\ orphans = {}
    /\ closed = FALSE
    /\ replaced = FALSE
    /\ last = Constructed(id)
    /\ display = NoDisplay

\* faulty variant: a registration that skips a function the list already holds
RegisterOnce(k, cb) ==
  /\ Registered < MaxCallbacks
  /\ callbacks' = IF \E i \in DOMAIN callbacks[k] : callbacks[k][i] = cb
                    THEN callbacks
                    ELSE [callbacks EXCEPT ![k] = Append(@, cb)]
  /\ last' = Op("on", "-", k, NullData, Say(Start, Ev("push", cb, k, NullData)))
  /\ UNCHANGED <<scanId, socket, orphans, closed, replaced, display>>

\* onProgress / onComplete / onError / onConnect / onDisconnect: app.js:147-165
Register(k, cb) ==
  /\ Registered < MaxCallbacks
  /\ callbacks' = [callbacks EXCEPT ![k] = Append(@, cb)]
  /\ last' = Op("on", "-", k, NullData, Say(Start, Ev("push", cb, k, NullData)))
  /\ UNCHANGED <<scanId, socket, orphans, closed, replaced, display>>

\* connect(), io() returning a new channel: app.js:95-133. The channel
\* this.socket referred to, if any, is not closed.
Connect ==
  /\ socket' = "disconnected"
  /\ orphans' = IF socket = NULL THEN orphans ELSE orphans \cup {socket}
  /\ replaced' = (replaced \/ socket # NULL)
  /\ last' = Op("connect", "-", "-", NullData, Start)
  /\ UNCHANGED <<scanId, callbacks, closed, display>>

\* faulty variant: a failed connect() reported to the error listeners
ConnectFailsReported ==
  /\ last' = Op("connect", "-", "failed", NullData,
                TriggerCallbacks("error", NullData, <<>>, <<>>, Start))
  /\ UNCHANGED <<scanId, socket, callbacks, orphans, closed, replaced, display>>

\* connect(), io() throwing: app.js:96-97, 134-136
ConnectFails ==
  /\ last' = Op("connect", "-", "failed", NullData, Start)
  /\ UNCHANGED <<scanId, socket, callbacks, orphans, closed, replaced, display>>

\* disconnect(): app.js:139-144
Disconnect ==
  \E nested \in Reach2(Start, <<"disconnect">>) :
    Commit("disconnect", "-", "-", NullData, DisconnectCall(nested, Start))

\* emit(eventName, data): app.js:177-183
Emit ==
  /\ last' = Op("emit", "-", "page_event", EmitData, EmitCall("page_event", EmitData, Start))
  /\ UNCHANGED <<scanId, socket, callbacks, orphans, closed, replaced, display>>

\* a channel is established (first connection, or Socket.IO's reconnection
\* after a loss) and fires "connect": app.js:100-104
Established(src) ==
  /\ Has(src, "disconnected")
  /\ \E st0 \in Moved(src, "disconnected", "connected") :
       \E outs \in Reach1(OnConnect(<<>>, <<>>, st0), st0) :
       \E nested \in Reach2(st0, outs) :
         Commit("established", src, "connect", NullData, OnConnect(outs, nested, st0))

\* the server or the network tears a channel down and it fires "disconnect":
\* app.js:106-109
Teardown(src) ==
  /\ Has(src, "connected")
  /\ \E st0 \in Moved(src, "connected", "disconnected") :
       \E outs \in Reach1(OnDisconnect(<<>>, st0), st0) :
       \E nested \in Reach2(st0, outs) :
         Commit("teardown", src, "disconnect", NullData, OnDisconnect(outs, st0))

\* the listener list a message name is routed to
KindOf(name) ==
  CASE name = "scan_progress" -> "progress"
    [] name = "scan_complete" -> "complete"
    [] name = "scan_error" -> "error"

\* a connected channel delivers one inbound message to its handler: app.js:111-132
Deliver(src, name, data) ==
  /\ Has(src, "connected")
  /\ \E st0 \in {Start} :
       \E outs \in Reach1(Handle(name, data, <<>>, <<>>, st0), st0) :
       \E nested \in Reach2(st0, outs) :
         Commit("recv", src, name, data, Handle(name, data, outs, nested, st0))

Next ==
  \/ \E k \in Kinds : \E cb \in Passable(k) : Register(k, cb)
  \/ Connect
  \/ ConnectFails
  \/ Disconnect
  \/ Emit
  \/ \E src \in Sources : Established(src)
  \/ \E src \in Sources : Teardown(src)
  \/ \E src \in Sources, name \in MessageNames, data \in Inbound : Deliver(src, name, data)

Spec == Init /\ [][Next]_vars

\* connect() called as its contract asks, on a client that holds no channel
ConnectFresh == socket = NULL /\ Connect

\* the same client with a caller that keeps to the contract of connect() and
\* may register a function more than once
NextRegistry ==
  \/ \E k \in Kinds : \E cb \in PassableAgain(k) : Register(k, cb)
  \/ ConnectFresh
  \/ ConnectFails
  \/ Disconnect
  \/ Emit
  \/ Established("this")
  \/ Teardown("this")
  \/ \E name \in MessageNames, data \in Inbound : Deliver("this", name, data)

RegistrySpec == Init /\ [][NextRegistry]_vars

\* ------------------------------------------- the display components
\* an extraction item of a scan result arrives at the page; no client is
\* involved (the one of this module stays as constructed)
InitDisplay ==
  /\ scanId = UNDEF
  /\ socket = NULL
  /\ callbacks = [k \in Kinds |-> <<>>]
  /\ orphans = {}
  /\ closed = FALSE
  /\ replaced = FALSE
  /\ last = Constructed(UNDEF)
  /\ \E item \in Items :
       display = [op |-> "item", item |-> item, pageNumber |-> Undefined, grouped |-> FALSE]

\* ResultsDisplay._organizeDataByPage, one item of extracted_data:
\* results-display.js:73-85
ResultsOrganize ==
  /\ display.op = "item"
  /\ LET pageNumber == ResultsExtractPageNumber(display.item)
     IN  display' = [display EXCEPT !.op = "results", !.pageNumber = pageNumber,
                                    !.grouped = (pageNumber # Unknown)]
  /\ UNCHANGED <<scanId, socket, callbacks, orphans, last, closed, replaced>>

\* AIDisplay._organizeDataByPage, one item of extractedData: ai-display.js:136-144
AIOrganize ==
  /\ display.op = "item"
  /\ display' = [display EXCEPT !.op = "ai", !.grouped = TRUE,
                                !.pageNumber = AIExtractPageNumber(display.item)]
  /\ UNCHANGED <<scanId, socket, callbacks, orphans, last, closed, replaced>>

NextDisplay == ResultsOrganize \/ AIOrganize

DisplaySpec == InitDisplay /\ [][NextDisplay]_vars

\* ---------------------------------------------------------------- properties
\* the calls in which a channel runs one of the client's handlers
ChannelOps == {"recv", "established", "teardown"}
\* the inbound message of call r carries the client's scan identifier
Matches(r) == r.data.scan_id = scanId
\* the entries of listeners of kind k in a log
EntersOf(log, k) == SelectSeq(log, LAMBDA e : e.ev = "enter" /\ e.kind = k)
\* one entry per registered listener of kind k, in registration order, with d
Round(k, d) == [i \in 1..Len(callbacks[k]) |-> Ev("enter", callbacks[k][i], k, d)]
\* all that a log holds about the listeners of kind k
About(log, k) == SelectSeq(log, LAMBDA e : e.kind = k /\ e.ev \in {"enter", "exit", "caught"})
Sends(log) == SelectSeq(log, LAMBDA e : e.ev = "send")

\* C1: an inbound scan_progress, scan_complete or scan_error message whose
\* scan_id differs from the client's scanId invokes no listener of any kind and
\* raises no error; a message tagged "A" runs all listeners of its kind on a
\* client bound to "A" and none on a client bound to "B".
C1_Isolation ==
  last.op = "recv" =>
    /\ ~Matches(last) => last.log = <<>> /\ ~last.raised
    /\ last.data.scan_id = "A" /\ scanId = "A" =>
         EntersOf(last.log, KindOf(last.kind)) = Round(KindOf(last.kind), last.data)
    /\ last.data.scan_id = "A" /\ scanId = "B" => Enters(last.log) = <<>>
C1_Witness ==
  /\ last.op = "recv" /\ scanId = "B" /\ last.data.scan_id = "A"
  /\ callbacks[KindOf(last.kind)] # <<>>
  /\ last.log = <<>>

\* C2: a matching inbound message invokes every listener registered for its
\* kind exactly once, in registration order, each with the full payload, and a
\* listener has finished (returned or thrown) before the next one starts.
C2_Fanout ==
  last.op = "recv" /\ Matches(last) =>
    LET k == KindOf(last.kind)
        sub == About(last.log, k)
    IN  /\ Len(sub) = 2 * Len(callbacks[k])
        /\ \A i \in 1..Len(callbacks[k]) :
             /\ sub[2 * i - 1] = Ev("enter", callbacks[k][i], k, last.data)
             /\ sub[2 * i].ev \in {"exit", "caught"}
             /\ sub[2 * i].cb = callbacks[k][i]
C2_Witness ==
  /\ last.op = "recv" /\ Matches(last)
  /\ Len(callbacks[KindOf(last.kind)]) >= 2
  /\ Len(About(last.log, KindOf(last.kind))) >= 4

\* the listener entered at position p of a log has not returned: it threw
Threw(log, p) ==
  /\ log[p].ev = "enter"
  /\ \A q \in DOMAIN log :
       q > p => ~(log[q].ev = "exit" /\ log[q].kind = log[p].kind /\ log[q].cb = log[p].cb)
\* C3: a listener that throws does not make the dispatch raise, every listener
\* registered after it for the same kind is still invoked for that event, and
\* the next matching message is again dispatched to all listeners of its kind,
\* the one that threw included.
C3_EveryLaterListenerRuns ==
  last.op \in ChannelOps =>
    \A p \in DOMAIN last.log : Threw(last.log, p) =>
      /\ ~last.raised
      /\ LET k == last.log[p].kind
         IN  \A i, j \in 1..Len(callbacks[k]) :
               callbacks[k][i] = last.log[p].cb /\ i < j =>
                 \E q \in DOMAIN last.log :
                   q > p /\ last.log[q] = Ev("enter", callbacks[k][j], k, last.log[p].arg)
C3_LaterEventsDispatched ==
  (\E p \in DOMAIN last.log : Threw(last.log, p))
  /\ last'.op = "recv" /\ last'.data.scan_id = scanId' =>
    LET k == KindOf(last'.kind)
    IN  /\ Len(EntersOf(last'.log, k)) = Len(callbacks'[k])
        /\ \A i \in 1..Len(callbacks'[k]) :
             EntersOf(last'.log, k)[i] = Ev("enter", callbacks'[k][i], k, last'.data)
C3_FaultIsolation == [](C3_EveryLaterListenerRuns) /\ [][C3_LaterEventsDispatched]_vars
C3_Witness ==
  /\ last.op = "recv"
  /\ \E p, q \in DOMAIN last.log :
       /\ p < q
       /\ Threw(last.log, p)
       /\ last.log[q].ev = "enter" /\ last.log[q].kind = last.log[p].kind

\* C4: after disconnect() has been called on a connected client, a matching
\* inbound scan_progress, scan_complete or scan_error message invokes no
\* listener of that client. The client is one that respects the contract of
\* connect(): it has not called connect() while it already held a channel.
C4_NoDispatchAfterDisconnect ==
  [][closed /\ socket = NULL /\ ~replaced =>
       ~(last'.op = "recv" /\ Enters(last'.log) # <<>>)]_vars
C4_Witness ==
  /\ last.op = "disconnect" /\ closed /\ socket = NULL /\ ~replaced
  /\ \E k \in {"progress", "complete", "error"} : callbacks[k] # <<>>
  /\ \E p, q \in DOMAIN last.log :
       /\ last.log[p].ev = "close"
       /\ last.log[q].ev = "enter" /\ last.log[q].kind = "disconnect"

\* C5 (as stated): once disconnect() has closed the client, no dispatch ever
\* occurs on that instance again, not even after a later connect().
C5_Original ==
  [][closed => ~(last'.op \in ChannelOps /\ Enters(last'.log) # <<>>)]_vars
\* C5 (amended): once closed (and with no channel replaced by connect()), no
\* channel event reaches the client until connect() is called again; after a
\* later connect() on the same instance the events are delivered as before.
C5_NoEventWhileClosed ==
  closed /\ socket = NULL /\ ~replaced => last'.op \notin ChannelOps
C5_ReusedInstanceDelivers ==
  /\ closed /\ last.op = "established" /\ ~last.raised =>
       EntersOf(last.log, "connect") = Round("connect", NullData)
  /\ closed /\ last.op = "recv" /\ Matches(last) =>
       EntersOf(last.log, KindOf(last.kind)) = Round(KindOf(last.kind), last.data)
C5_ClosedUntilReconnected ==
  [](C5_ReusedInstanceDelivers) /\ [][C5_NoEventWhileClosed]_vars
C5_Witness ==
  /\ closed /\ ~replaced /\ socket = "connected"
  /\ last.op = "recv" /\ Matches(last) /\ Enters(last.log) # <<>>

\* C6: emit() sends the message if and only if this.socket exists and is
\* connected; otherwise it sends nothing and raises nothing, and no other call
\* ever sends the message later.
C6_EmitOnlyWhenConnected ==
  /\ last.op = "emit" =>
       /\ ~last.raised
       /\ IF socket = "connected"
            THEN last.log = <<Note("send", last.kind, last.data)>>
            ELSE Sends(last.log) = <<>>
  /\ \A p \in DOMAIN last.log :
       last.log[p].ev = "send" /\ last.log[p].kind # "client_ready" =>
         last.op = "emit" /\ socket = "connected"
C6_Witness ==
  last.op = "emit" /\ socket = "disconnected" /\ Sends(last.log) = <<>>

\* what C7 says of an establishment r: one client_ready with the scanId, sent
\* first, then every connect listener invoked with no payload
Handshake(r, cbs) ==
  /\ ~r.raised
  /\ Len(r.log) >= 1
  /\ r.log[1] = Note("send", "client_ready", Obj(scanId, UNDEF))
  /\ Len(Sends(r.log)) = 1
  /\ EntersOf(r.log, "connect")
       = [i \in 1..Len(cbs) |-> Ev("enter", cbs[i], "connect", NullData)]
\* C7: on each successful channel establishment the client sends exactly one
\* client_ready carrying its scanId before any connect listener is invoked, and
\* then invokes all connect listeners with no payload. The client is one that
\* respects the contract of connect(): it has not called connect() while it
\* already held a channel.
C7_HandshakeFirst ==
  last.op = "established" /\ ~replaced => Handshake(last, callbacks["connect"])
C7_Witness ==
  /\ last.op = "established" /\ ~replaced
  /\ Len(callbacks["connect"]) >= 1
  /\ Len(last.log) >= 3 /\ last.log[1].ev = "send" /\ last.log[2].ev = "enter"

\* C8 (as stated): a matching message of one kind invokes the listeners of
\* that kind with the payload unchanged and no listener of any other kind.
C8_Original ==
  last.op = "recv" /\ Matches(last) =>
    \A p \in DOMAIN last.log :
      last.log[p].ev = "enter" =>
        last.log[p].kind = KindOf(last.kind) /\ last.log[p].arg = last.data
\* C8 (amended): ... and no progress, complete, error or connect listener of
\* another kind; a disconnect listener runs only inside an invoked listener
\* that has called disconnect().
C8_OnlyItsKind ==
  last.op = "recv" /\ Matches(last) =>
    LET k == KindOf(last.kind) IN
    /\ EntersOf(last.log, k) = Round(k, last.data)
    /\ \A p \in DOMAIN last.log :
         last.log[p].ev = "enter" /\ last.log[p].kind # k =>
           /\ last.log[p].kind = "disconnect"
           /\ \E q \in 1..(p - 1) : last.log[q].ev = "close"
           /\ Len(SelectSeq(SubSeq(last.log, 1, p), LAMBDA e : e.kind = k /\ e.ev = "enter"))
                = 1 + Len(SelectSeq(SubSeq(last.log, 1, p),
                                    LAMBDA e : e.kind = k /\ e.ev \in {"exit", "caught"}))
C8_Witness ==
  /\ last.op = "recv" /\ last.kind = "scan_error" /\ Matches(last)
  /\ callbacks["error"] # <<>> /\ callbacks["progress"] # <<>>
  /\ Enters(last.log) = Round("error", last.data)

\* what C9 says of a delivery r: its log holds the round of its own message,
\* whole, and nothing of another message
OwnRound(r, cbs) ==
  LET k == KindOf(r.kind) IN
  /\ \A p \in DOMAIN r.log :
       r.log[p].kind \in {"progress", "complete", "error"} =>
         r.log[p].kind = k /\ r.log[p].arg = r.data
  /\ Len(EntersOf(r.log, k)) = IF Matches(r) THEN Len(cbs[k]) ELSE 0
\* C9: listener invocations follow the order of delivery: a message delivered
\* after another gets its own whole round after the round of the first, and a
\* message equal to the one just handled is dispatched again, not merged.
C9_EachDeliveryItsRound ==
  [][last.op = "recv" /\ last'.op = "recv" =>
       OwnRound(last, callbacks) /\ OwnRound(last', callbacks')]_vars
C9_RepeatedMessageDispatched ==
  last.op = "recv" /\ last.repeat => OwnRound(last, callbacks)
C9_DeliveryOrder == [](C9_RepeatedMessageDispatched) /\ C9_EachDeliveryItsRound
C9_Witness ==
  /\ last.op = "recv" /\ last.repeat /\ last.kind = "scan_progress" /\ Matches(last)
  /\ callbacks["progress"] # <<>>
  /\ Len(EntersOf(last.log, "progress")) = Len(callbacks["progress"])

\* C10 (as stated): a payload without scan_id is discarded by every client,
\* also by one constructed without a scanId: no listener, no error.
C10_Original ==
  last.op = "recv" /\ last.data.scan_id = UNDEF => last.log = <<>> /\ ~last.raised

\* the call r is a connect() in which opening the channel failed
FailedConnect(r) == r.op = "connect" /\ r.kind = "failed"
\* C11: when opening the channel fails inside connect(), connect() returns
\* without throwing, invokes no connect listener and no error listener (nor
\* any other), and leaves the client as it was: a client that was not
\* connected is still not connected, and an emit() that follows sends nothing.
C11_FailedConnectIsSilent ==
  FailedConnect(last') =>
    /\ ~last'.raised
    /\ last'.log = <<>>
    /\ socket' = socket /\ orphans' = orphans /\ callbacks' = callbacks
C11_EmitAfterFailedConnect ==
  FailedConnect(last) /\ ~Connected(socket) /\ last'.op = "emit" =>
    Sends(last'.log) = <<>> /\ ~last'.raised
C11_ConnectFailureSwallowed ==
  [][C11_FailedConnectIsSilent /\ C11_EmitAfterFailedConnect]_vars
C11_Witness ==
  /\ FailedConnect(last) /\ socket = NULL
  /\ callbacks["connect"] # <<>> /\ callbacks["error"] # <<>>
  /\ last.log = <<>> /\ ~last.raised

\* connect() has not opened a channel on this client so far
NoChannelYet == socket = NULL /\ orphans = {} /\ ~closed /\ ~replaced
\* C12: constructing a client stores the scanId, opens no channel and leaves
\* the five listener lists empty; as long as connect() has opened no channel,
\* no channel event reaches the client, no message is sent and no listener is
\* invoked, whatever is registered or emitted.
C12_AsConstructed ==
  last.op = "new" =>
    /\ scanId = last.data.scan_id
    /\ socket = NULL /\ orphans = {}
    /\ DOMAIN callbacks = {"progress", "complete", "error", "connect", "disconnect"}
    /\ \A k \in DOMAIN callbacks : callbacks[k] = <<>>
    /\ last.log = <<>> /\ ~last.raised
C12_QuietUntilConnect ==
  NoChannelYet =>
    /\ last'.op \notin ChannelOps
    /\ Sends(last'.log) = <<>>
    /\ Enters(last'.log) = <<>>
C12_Constructor == [](C12_AsConstructed) /\ [][C12_QuietUntilConnect]_vars
C12_Witness ==
  /\ NoChannelYet /\ last.op = "emit"
  /\ callbacks["connect"] # <<>>
  /\ Sends(last.log) = <<>> /\ Enters(last.log) = <<>>

\* the listeners that are running when the entry at position p is logged
Depth(log, p) ==
  Len(SelectSeq(SubSeq(log, 1, p - 1), LAMBDA e : e.ev = "enter"))
  - Len(SelectSeq(SubSeq(log, 1, p - 1), LAMBDA e : e.ev \in {"exit", "caught"}))
\* the close requests a call makes itself, not those of a listener it runs
OwnCloses(log) == {p \in DOMAIN log : log[p].ev = "close" /\ Depth(log, p) = 0}
\* C13: disconnect() on a client that holds a channel asks that channel to
\* close exactly once, before anything else, and drops the reference;
\* disconnect() on a client that holds none changes nothing, does nothing and
\* throws nothing, so a second disconnect() leaves the state of the first.
C13_OneDisconnect ==
  last'.op = "disconnect" =>
    /\ ~last'.raised
    /\ socket' = NULL
    /\ scanId' = scanId /\ callbacks' = callbacks /\ orphans' = orphans
    /\ IF socket # NULL
         THEN /\ Cardinality(OwnCloses(last'.log)) = 1
              /\ last'.log[1].ev = "close"
         ELSE /\ last'.log = <<>>
              /\ closed' = closed /\ replaced' = replaced
C13_SecondDisconnect ==
  last.op = "disconnect" /\ last'.op = "disconnect" =>
    /\ last'.log = <<>>
    /\ <<scanId, socket, callbacks, orphans, closed, replaced>>'
         = <<scanId, socket, callbacks, orphans, closed, replaced>>
C13_DisconnectIdempotent == [][C13_OneDisconnect /\ C13_SecondDisconnect]_vars
C13_Witness ==
  /\ last.op = "disconnect" /\ last.log = <<>> /\ ~last.raised
  /\ closed /\ socket = NULL

\* C14 (as stated): when a listener calls disconnect() while an event is being
\* dispatched, no listener of the round is started once that call has been
\* made; the only listeners entered after it are those that disconnect()
\* itself runs inside the calling listener.
C14_Original ==
  last.op \in ChannelOps =>
    \A p, q \in DOMAIN last.log :
      p < q /\ last.log[p].ev = "close" /\ last.log[q].ev = "enter" =>
        Depth(last.log, q) > 0

\* the list b is the list a with nothing removed, replaced or moved
Extends(a, b) == Len(a) <= Len(b) /\ SubSeq(b, 1, Len(a)) = a
\* C15: each listener list only ever grows: a registration appends the
\* function it is given at the end of the list of its kind, also when the list
\* already holds that function, and leaves the other four lists unchanged; no
\* other call (connect, disconnect, emit, a dispatch, a throwing listener)
\* changes any list.
C15_Registration ==
  last'.op = "on" =>
    /\ last'.log = <<Ev("push", last'.log[1].cb, last'.kind, NullData)>>
    /\ callbacks'[last'.kind] = Append(callbacks[last'.kind], last'.log[1].cb)
    /\ \A k \in Kinds \ {last'.kind} : callbacks'[k] = callbacks[k]
C15_OtherCalls ==
  /\ \A k \in Kinds : Extends(callbacks[k], callbacks'[k])
  /\ last'.op # "on" => callbacks' = callbacks
C15_AppendOnly == [][C15_Registration /\ C15_OtherCalls]_vars
C15_Witness ==
  /\ last.op = "on"
  /\ LET k == last.kind
         n == Len(callbacks[k])
     IN  /\ n >= 2
         /\ callbacks[k][n] = callbacks[k][n - 1]
         /\ callbacks[k][n] = last.log[1].cb

\* an item has the field (the claim's "present")
Present(x) == x.type # "undefined"
\* the page the stated priority order gives: the direct page if present, else
\* attributes.page if present, else source_location.page if present, else the
\* sentinel
ByPriority(item, sentinel) ==
  IF Present(item.page) THEN item.page
  ELSE IF Present(item.attributes.page) THEN item.attributes.page
  ELSE IF Present(item.source_location.page) THEN item.source_location.page
  ELSE sentinel
\* C16 (as stated): both components resolve the page of an item in the order
\* page, attributes.page, source_location.page, sentinel, a present direct page
\* (page 0 included) is never overridden, and ResultsDisplay groups the item
\* under a page exactly when the result is not the sentinel.
C16_Original ==
  /\ display.op = "results" =>
       /\ display.pageNumber = ByPriority(display.item, Unknown)
       /\ display.grouped = (display.pageNumber # Unknown)
  /\ display.op = "ai" =>
       display.pageNumber = ByPriority(display.item, NotApplicable)

====
